---- MODULE Spec2Model ----
(***************************************************************************)
(* The evacuation dispatch engine of "Civil Protection/server.js":         *)
(* POST /api/plan-routes, with the geometry, partition, solver and route   *)
(* helpers it calls.                                                       *)
(*                                                                         *)
(* Conventions.                                                            *)
(*  - A coordinate is <<lon, lat>>.  Every vehicle, target and city center *)
(*    of the model lies on the equator (lat = 0) on a grid whose step is   *)
(*    30 km of arc; there haversineKm's 2 R asin(sqrt(a)) is R |dLon|, so  *)
(*    the distance of two grid points is 30 km times their grid distance.  *)
(*    Hazard rings are polygons in the same grid units, around the equator.*)
(*  - JavaScript indices are kept 0-based in the data (shipmentIndex,      *)
(*    vehicleIndex, picks); sequences are 1-based, so element i of an      *)
(*    array is s[i + 1].  A target object is identified by its index in    *)
(*    `targets`, a vehicle object by its index in `vehiclesAll`.           *)
(*  - An optional value is None or Some(x).                                *)
(***************************************************************************)
EXTENDS Integers, Sequences, FiniteSets, TLC

None == <<>>
Some(x) == <<x>>

Abs(n) == IF n < 0 THEN 0 - n ELSE n
Max(a, b) == IF a > b THEN a ELSE b

Range(s) == {s[i] : i \in 1..Len(s)}

RECURSIVE SumSeq(_)
SumSeq(s) == IF s = <<>> THEN 0 ELSE Head(s) + SumSeq(Tail(s))

RECURSIVE Concat(_)
Concat(ss) == IF ss = <<>> THEN <<>> ELSE Head(ss) \o Concat(Tail(ss))

(***************************************************************************)
(* Bounds of the model.                                                    *)
(***************************************************************************)
MaxVehicles == 2
MaxTargets == 2
MaxHazards == 2
MaxRoutes == 2
MaxVisits == 2

(***************************************************************************)
(* Geometry kernel.                                                        *)
(***************************************************************************)

\* Ray casting over the edges (ring[j], ring[i]), j the index before i
\* (cyclically).  With yi > y # yj > y the divisor yj - yi is never 0, and
\*   x < (xj - xi) * (y - yi) / (yj - yi) + xi
\* is decided exactly by cross-multiplying with the divisor's sign.
pointInRing(pt, ring) ==
  LET n == Len(ring)
      x == pt[1]
      y == pt[2]
      prev(i) == IF i = 1 THEN n ELSE i - 1
      intersect(i) ==
        LET xi == ring[i][1]
            yi == ring[i][2]
            xj == ring[prev(i)][1]
            yj == ring[prev(i)][2]
        IN  /\ (yi > y) # (yj > y)
            /\ IF yj - yi > 0
                 THEN (x - xi) * (yj - yi) < (xj - xi) * (y - yi)
                 ELSE (x - xi) * (yj - yi) > (xj - xi) * (y - yi)
  IN  Cardinality({i \in 1..n : intersect(i)}) % 2 = 1

\* pointInPolygon that looks at the outer ring only.
pointInPolygonOuterOnly(pt, polygon) ==
  LET rings == polygon.coordinates
  IN  IF Len(rings) = 0 THEN FALSE
      ELSE pointInRing(pt, rings[1])

pointInPolygon(pt, polygon) ==
  LET rings == polygon.coordinates
  IN  IF Len(rings) = 0 THEN FALSE
      ELSE IF ~pointInRing(pt, rings[1]) THEN FALSE
      ELSE \A r \in 2..Len(rings) : ~pointInRing(pt, rings[r])

pointInMultiPolygon(pt, multiPolygon) ==
  \E p \in 1..Len(multiPolygon.coordinates) :
     pointInPolygon(pt, [type |-> "Polygon", coordinates |-> multiPolygon.coordinates[p]])

pointInGeom(pt, geom) ==
  IF geom.type = "Polygon" THEN pointInPolygon(pt, geom)
  ELSE IF geom.type = "MultiPolygon" THEN pointInMultiPolygon(pt, geom)
  ELSE FALSE

(***************************************************************************)
(* Distance and partition.                                                 *)
(***************************************************************************)

haversineKm(a, b) == 30 * Abs(a[1] - b[1])

\* Object.entries order: Athens, Thessaloniki, Patras.
CITY_CENTERS ==
  << [city |-> "Athens",       center |-> <<6, 0>>],
     [city |-> "Thessaloniki", center |-> <<16, 0>>],
     [city |-> "Patras",       center |-> <<0, 0>>] >>

CITY_RADIUS_KM == 90

\* The key that cityVehicles[null] / cityTargets[null] looks up.
NoCity == "null"

cityNames == {CITY_CENTERS[i].city : i \in 1..Len(CITY_CENTERS)}

\* nearestCityForCoord with the last of the nearest centers taken.
nearestCityLastWins(c) ==
  LET d(i) == haversineKm(CITY_CENTERS[i].center, c)
      best == CHOOSE i \in 1..Len(CITY_CENTERS) :
                /\ \A k \in 1..Len(CITY_CENTERS) : d(i) <= d(k)
                /\ \A k \in (i + 1)..Len(CITY_CENTERS) : d(k) > d(i)
  IN  IF d(best) <= CITY_RADIUS_KM THEN CITY_CENTERS[best].city ELSE NoCity

\* for (city, center) in order: if (d < bestD) take it; the first center of
\* minimum distance stays.
nearestCityForCoord(c) ==
  LET d(i) == haversineKm(CITY_CENTERS[i].center, c)
      best == CHOOSE i \in 1..Len(CITY_CENTERS) :
                /\ \A k \in 1..Len(CITY_CENTERS) : d(i) <= d(k)
                /\ \A k \in 1..(i - 1) : d(k) > d(i)
  IN  IF d(best) <= CITY_RADIUS_KM THEN CITY_CENTERS[best].city ELSE NoCity

(***************************************************************************)
(* Hazard activity.                                                        *)
(***************************************************************************)

\* A raw date is absent, a string Date.parse rejects, or a parseable
\* timestamp t.
NoDate == [kind |-> "absent", t |-> 0]
BadDate == [kind |-> "invalid", t |-> 0]
At(t) == [kind |-> "iso", t |-> t]

parseDateSafe(v) == IF v.kind = "iso" THEN Some(v.t) ELSE None

\* isActive with the start of the window taken as still outside it.
isActiveStartExclusive(props, clock) ==
  LET start == parseDateSafe(props.startDate)
      end == parseDateSafe(props.endDate)
  IN  IF end # None /\ end[1] <= clock THEN FALSE
      ELSE IF start # None /\ start[1] >= clock THEN FALSE
      ELSE TRUE

\* isActive with the end of the window taken as still inside it.
isActiveEndInclusive(props, clock) ==
  LET start == parseDateSafe(props.startDate)
      end == parseDateSafe(props.endDate)
  IN  IF end # None /\ end[1] < clock THEN FALSE
      ELSE IF start # None /\ start[1] > clock THEN FALSE
      ELSE TRUE

isActive(props, clock) ==
  LET start == parseDateSafe(props.startDate)
      end == parseDateSafe(props.endDate)
  IN  IF end # None /\ end[1] <= clock THEN FALSE
      ELSE IF start # None /\ start[1] > clock THEN FALSE
      ELSE TRUE

\* /Polygon/i.test(g.type)
IsPolygonType(g) == g.type \in {"Polygon", "MultiPolygon"}

\* The geometries one hazard record contributes: its perimeter, then its
\* projected (evacuation) areas.
GeomsOfRecord(d) ==
  (IF IsPolygonType(d.geometry) THEN <<d.geometry>> ELSE <<>>)
    \o SelectSeq(d.projectedAreasOfEffect, IsPolygonType)

\* loadActiveDisasterGeometries over the records the hazard source returned.
loadActiveDisasterGeometries(records, clock) ==
  Concat([i \in 1..Len(records) |->
            IF isActive(records[i], clock) THEN GeomsOfRecord(records[i]) ELSE <<>>])

(***************************************************************************)
(* Source loaders.                                                         *)
(***************************************************************************)

\* loadFleetFeatures over the entities Orion returned: an entity without a
\* two-element location is skipped; availableSeats = max(0, total - occupied);
\* email: e.contactPoint?.email.
FleetFeature(e) ==
  [id |-> e.id,
   coordinates |-> e.coordinates,
   email |-> e.email,
   availableSeats |-> Max(0, e.totalSeats - e.occupiedSeats)]

HasLocation(e) == Len(e.coordinates) = 2

loadFleetFeatures(entities) ==
  LET kept == SelectSeq(entities, HasLocation)
  IN  [i \in 1..Len(kept) |-> FleetFeature(kept[i])]

\* loadAmeaFeatures over the rows the target sources returned: a row
\* without finite coordinates is skipped; id = String(d._id ?? d.id ?? '').
AmeaFeature(d) == [id |-> d.id, coordinates |-> d.coordinates]

loadAmeaFeatures(rows) ==
  LET kept == SelectSeq(rows, HasLocation)
  IN  [i \in 1..Len(kept) |-> AmeaFeature(kept[i])]

(***************************************************************************)
(* Inputs of a run, drawn from bounded sets.                               *)
(***************************************************************************)

SeqsUpTo(S, n) == UNION {[1..k -> S] : k \in 0..n}

VehicleIds == <<"v1", "v2", "v3">>

\* <<coordinates, totalSeats, occupiedSeats>>: in Athens or in Patras with
\* 0, 1 or 2 seats free, or outside every radius with a seat free.
VehicleKinds ==
  ({<<5, 0>>, <<2, 0>>} \X {<<1, 1>>, <<1, 0>>, <<2, 0>>}) \cup {<< <<11, 0>>, <<1, 0>> >>}

\* Orion entity ids are unique: entity i carries VehicleIds[i].
FleetEntities(n) ==
  UNION {
    { [i \in 1..k |-> [id |-> VehicleIds[i],
                       coordinates |-> f[i][1],
                       email |-> None,
                       totalSeats |-> f[i][2][1],
                       occupiedSeats |-> f[i][2][2]]] :
        f \in [1..k -> VehicleKinds] } :
    k \in 0..n }

\* The fleets of the runs: up to MaxVehicles entities, or at most one.
Fleets == FleetEntities(MaxVehicles)
OneVehicleFleets == FleetEntities(1)

\* Rows of the target sources: with an id or without one, in Athens (4, 7)
\* or outside every radius (10).
AmeaRecords ==
  { [id |-> "1", coordinates |-> <<4, 0>>],
    [id |-> "", coordinates |-> <<7, 0>>],
    [id |-> "", coordinates |-> <<10, 0>>] }

AmeaRows == SeqsUpTo(AmeaRecords, MaxTargets)

Square(x1, x2) == << <<x1, 0 - 1>>, <<x2, 0 - 1>>, <<x2, 1>>, <<x1, 1>>, <<x1, 0 - 1>> >>

\* A square (around the target coordinates 4 and 7); a wide polygon with a
\* hole (around 7 and 10, with 4 in the hole); two squares.
GeomSquare == [type |-> "Polygon", coordinates |-> <<Square(1, 8)>>]
GeomHoled == [type |-> "Polygon", coordinates |-> <<Square(0 - 1, 12), Square(3, 6)>>]
GeomMulti ==
  [type |-> "MultiPolygon", coordinates |-> << <<Square(1, 3)>>, <<Square(9, 11)>> >>]
\* Not a polygon: the loader's /Polygon/i test leaves it out.
GeomLine == [type |-> "LineString", coordinates |-> << <<3, 0>>, <<5, 0>>, <<8, 0>> >>]

Clock == {2}

HazardWindows ==
  { <<NoDate, NoDate>>, <<At(1), At(1)>>, <<At(1), At(2)>>, <<At(2), At(3)>>,
    <<At(3), NoDate>>, <<NoDate, BadDate>> }

HazardRecords ==
  { [geometry |-> g, startDate |-> w[1], endDate |-> w[2], projectedAreasOfEffect |-> p] :
      g \in {GeomSquare, GeomHoled}, w \in HazardWindows, p \in {<<>>} }
  \cup
  { [geometry |-> GeomLine, startDate |-> NoDate, endDate |-> NoDate,
     projectedAreasOfEffect |-> <<GeomMulti>>] }

AllHazardFeeds == SeqsUpTo(HazardRecords, MaxHazards)

OpenHazard(g) ==
  [geometry |-> g, startDate |-> NoDate, endDate |-> NoDate, projectedAreasOfEffect |-> <<>>]

\* The feeds of the runs that go through the whole pipeline.
HazardFeeds ==
  { <<>>, <<OpenHazard(GeomSquare)>>, <<OpenHazard(GeomHoled)>>,
    <<[OpenHazard(GeomSquare) EXCEPT !.endDate = At(1)]>> }

Includes == {{}, {"v1"}}

\* Endpoints that contain '/api/ids/data', and endpoints that contain
\* 'natural'.
IdsDataEndpoints == {"https://club.example/api/ids/data"}
NaturalEndpoints == {"https://fires.example/natural"}

\* Provider lists loadProviderConfigs can return: the one loaded at startup
\* (a target source and a hazard source, known by their service), one with
\* other sources (known by their endpoints), one without a hazard source,
\* and none (no run directory).
InitialProviders ==
  << [service |-> "amea", endpoint |-> "https://amea.example/items"],
     [service |-> "naturaldisaster", endpoint |-> "https://hazards.example/events"] >>

ProviderLists ==
  { InitialProviders,
    << [service |-> "other", endpoint |-> "https://fires.example/natural"],
       [service |-> "other", endpoint |-> "https://club.example/api/ids/data"] >>,
    << [service |-> "ameaclub", endpoint |-> "https://club.example/members"] >>,
    <<>> }

\* PROVIDERS.filter(p => ['amea','ameaclub'].includes(p.service) ||
\*   String(p.endpoint||'').toLowerCase().includes('/api/ids/data'))
IsAmeaSource(p) == p.service \in {"amea", "ameaclub"} \/ p.endpoint \in IdsDataEndpoints
AmeaSourcesOf(providers) == SelectSeq(providers, IsAmeaSource)

\* PROVIDERS.filter(p => p.service === 'naturaldisaster' ||
\*   String(p.endpoint || '').toLowerCase().includes('natural'))
IsHazardSource(p) == p.service = "naturaldisaster" \/ p.endpoint \in NaturalEndpoints
HazardSourcesOf(providers) == SelectSeq(providers, IsHazardSource)

Sources == {"amea", "fleet", "geoms"}

(***************************************************************************)
(* State of one planning run.                                              *)
(***************************************************************************)

\* A visit without any of the fields the parser reads.
NoVisit == [shipmentIndex |-> None, shipmentLabel |-> None, requestIndex |-> None]

VARIABLES
  PROVIDERS,     \* the provider list in force (module-level let)
  ameaSources,   \* the sources loadAmeaFeatures selected for this run
  geomSources,   \* the sources loadActiveDisasterGeometries selected
  pc,            \* where the handler of POST /api/plan-routes stands
  include,       \* the vehicle-id filter of the request
  fetch,         \* per source: "pending", "fulfilled" or "rejected"
  clock,         \* Date.now() of the hazard activity check
  hazards,       \* the records the hazard source returned
  amea, fleet, geoms,          \* results of the three loaders
  targets,       \* eligible targets
  vehiclesAll,   \* vehicles with free seats (after the filter)
  cityVehicles, cityTargets,   \* partitions: city -> indices
  solved,        \* what optimizeTours returned
  ri,            \* index of the optimizer route being parsed
  veh,           \* the vehicle the current route resolved to
  ordered,       \* the targets resolved from the current route's visits
  nv,            \* visits of the current route read so far
  curVisit,      \* the visit the visits loop has read last
  assignedShipmentIdx,         \* indices of the targets seen while parsing
  missing,       \* targets still to reconcile, ascending
  durations,     \* the travel-time matrix, or None
  unassigned,    \* the local solver's pool of target indices
  bi,            \* index of the vehicle whose route is built next
  features,      \* the output records built so far
  routeCalls,    \* per vehicle of the build loop: what osrmRoute returned
  notified,      \* ids of the vehicles a route email was sent for, in order
  pickedBy,      \* which solvers have assigned a pick in this run
  unknownLabelSeen,            \* a visit named by an unknown label was read
  res,           \* the HTTP response
  err            \* what threw, when the run ends in plan_failed

providerVars == <<PROVIDERS, ameaSources, geomSources>>
gatherVars == <<include, fetch, clock, hazards, amea, fleet, geoms, providerVars>>
solveVars == <<solved, ri, veh, ordered, nv, curVisit, assignedShipmentIdx, missing,
               durations, unassigned, pickedBy, unknownLabelSeen>>
buildVars == <<bi, features, routeCalls, notified>>

vars == <<pc, gatherVars, targets, vehiclesAll, cityVehicles, cityTargets,
          solveVars, buildVars, res, err>>

NoResponse == [status |-> 0]

Init ==
  /\ PROVIDERS = InitialProviders
  /\ ameaSources = None
  /\ geomSources = None
  /\ pc = "idle"
  /\ include = {}
  /\ fetch = [s \in Sources |-> "idle"]
  /\ clock = 0
  /\ hazards = <<>>
  /\ amea = <<>>
  /\ fleet = <<>>
  /\ geoms = <<>>
  /\ targets = <<>>
  /\ vehiclesAll = <<>>
  /\ cityVehicles = [c \in cityNames |-> <<>>]
  /\ cityTargets = [c \in cityNames |-> <<>>]
  /\ solved = "pending"
  /\ ri = 0
  /\ veh = None
  /\ ordered = <<>>
  /\ nv = 0
  /\ curVisit = NoVisit
  /\ assignedShipmentIdx = {}
  /\ missing = <<>>
  /\ durations = None
  /\ unassigned = {}
  /\ bi = 0
  /\ features = <<>>
  /\ routeCalls = <<>>
  /\ notified = <<>>
  /\ pickedBy = {}
  /\ unknownLabelSeen = FALSE
  /\ res = NoResponse
  /\ err = "none"

\* catch (e): res.status(500).json({error: 'plan_failed'})
PlanFailed(cause) ==
  /\ pc' = "failed"
  /\ err' = cause
  /\ res' = [status |-> 500, error |-> "plan_failed"]

\* res.json({type: 'FeatureCollection', features, meta})
Respond(feats, meta) ==
  /\ pc' = "done"
  /\ res' = [status |-> 200, features |-> feats, meta |-> meta]
  /\ err' = err

\* The request arrives; the three loaders are called one after the other
\* in the handler's first tick, each running up to its first await (the
\* two provider loaders select their sources from PROVIDERS before it), and
\* then run concurrently.
StartRun ==
  /\ pc = "idle"
  /\ \E inc \in Includes : include' = inc
  /\ ameaSources' = Some(AmeaSourcesOf(PROVIDERS))
  /\ geomSources' = Some(HazardSourcesOf(PROVIDERS))
  /\ fetch' = [s \in Sources |-> "pending"]
  /\ pc' = "gather"
  /\ UNCHANGED <<PROVIDERS, clock, hazards, amea, fleet, geoms, targets, vehiclesAll,
                 cityVehicles, cityTargets, solveVars, buildVars, res, err>>

\* loadAmeaFeatures settles: a failing source is caught and adds no rows,
\* and without a source there are none.
SettleAmea(menu) ==
  /\ pc = "gather"
  /\ fetch["amea"] = "pending"
  /\ \E ok \in BOOLEAN, rows \in menu :
       /\ (~ok \/ ameaSources = Some(<<>>)) => rows = <<>>
       /\ amea' = loadAmeaFeatures(rows)
  /\ fetch' = [fetch EXCEPT !["amea"] = "fulfilled"]
  /\ UNCHANGED <<providerVars, pc, include, clock, hazards, fleet, geoms, targets, vehiclesAll,
                 cityVehicles, cityTargets, solveVars, buildVars, res, err>>

\* loadFleetFeatures settles: the Orion call is not caught, so its failure
\* rejects the loader's promise.
SettleFleet(menu) ==
  /\ pc = "gather"
  /\ fetch["fleet"] = "pending"
  /\ \/ \E entities \in menu :
          /\ fleet' = loadFleetFeatures(entities)
          /\ fetch' = [fetch EXCEPT !["fleet"] = "fulfilled"]
     \/ /\ fleet' = fleet
        /\ fetch' = [fetch EXCEPT !["fleet"] = "rejected"]
  /\ UNCHANGED <<providerVars, pc, include, clock, hazards, amea, geoms, targets, vehiclesAll,
                 cityVehicles, cityTargets, solveVars, buildVars, res, err>>

\* A hazard loader that selects its sources only when its requests are
\* answered.
SettleGeomsLateRead(menu) ==
  /\ pc = "gather"
  /\ fetch["geoms"] = "pending"
  /\ geomSources' = Some(HazardSourcesOf(PROVIDERS))
  /\ \E ok \in BOOLEAN, records \in menu, t \in Clock :
       /\ (~ok \/ geomSources' = Some(<<>>)) => records = <<>>
       /\ hazards' = records
       /\ clock' = t
       /\ geoms' = loadActiveDisasterGeometries(records, t)
  /\ fetch' = [fetch EXCEPT !["geoms"] = "fulfilled"]
  /\ UNCHANGED <<PROVIDERS, ameaSources, pc, include, amea, fleet, targets, vehiclesAll,
                 cityVehicles, cityTargets, solveVars, buildVars, res, err>>

\* loadActiveDisasterGeometries settles: a failing source is caught and
\* adds no geometry, and without a source there is none.
SettleGeoms(menu) ==
  /\ pc = "gather"
  /\ fetch["geoms"] = "pending"
  /\ \E ok \in BOOLEAN, records \in menu, t \in Clock :
       /\ (~ok \/ geomSources = Some(<<>>)) => records = <<>>
       /\ hazards' = records
       /\ clock' = t
       /\ geoms' = loadActiveDisasterGeometries(records, t)
  /\ fetch' = [fetch EXCEPT !["geoms"] = "fulfilled"]
  /\ UNCHANGED <<providerVars, pc, include, amea, fleet, targets, vehiclesAll,
                 cityVehicles, cityTargets, solveVars, buildVars, res, err>>

\* POST /api/reload: PROVIDERS is replaced by what loadProviderConfigs
\* reads now; the handler has no await, so it runs between two steps of a
\* planning run.
Reload ==
  /\ \E providers \in ProviderLists : PROVIDERS' = providers
  /\ UNCHANGED <<ameaSources, geomSources, pc, include, fetch, clock, hazards, amea, fleet,
                 geoms, targets, vehiclesAll, cityVehicles, cityTargets, solveVars,
                 buildVars, res, err>>

\* await Promise.all([...]): fulfilled once all three are.
Join ==
  /\ pc = "gather"
  /\ \A s \in Sources : fetch[s] = "fulfilled"
  /\ pc' = "filter"
  /\ UNCHANGED <<gatherVars, targets, vehiclesAll, cityVehicles, cityTargets,
                 solveVars, buildVars, res, err>>

\* await Promise.all([...]): rejected as soon as one promise rejects; the
\* handler's catch answers 500.
JoinRejected ==
  /\ pc = "gather"
  /\ \E s \in Sources : fetch[s] = "rejected"
  /\ PlanFailed("fetch")
  /\ UNCHANGED <<gatherVars, targets, vehiclesAll, cityVehicles, cityTargets,
                 solveVars, buildVars>>

\* geoms.some(g => pointInGeom(c, g)) over the fetched features, in order.
InSomeGeom(f) ==
  /\ Len(f.coordinates) = 2
  /\ \E g \in 1..Len(geoms) : pointInGeom(f.coordinates, geoms[g])

EligibleTargets ==
  LET kept == SelectSeq(amea, InSomeGeom)
  IN  [i \in 1..Len(kept) |-> [id |-> kept[i].id, coord |-> kept[i].coordinates]]

\* Empty fleet or no active geometry: empty result.  Else the targets are
\* the features inside an active geometry; none: empty result.
Filter ==
  /\ pc = "filter"
  /\ IF Len(fleet) = 0 \/ Len(geoms) = 0
       THEN /\ Respond(<<>>, [vehicles |-> Len(fleet), targets |-> 0,
                              activeDisasters |-> Len(geoms)])
            /\ targets' = targets
       ELSE /\ targets' = EligibleTargets
            /\ IF Len(EligibleTargets) = 0
                 THEN Respond(<<>>, [vehicles |-> Len(fleet), targets |-> 0,
                                     activeDisasters |-> Len(geoms)])
                 ELSE pc' = "vehicles" /\ UNCHANGED <<res, err>>
  /\ UNCHANGED <<gatherVars, vehiclesAll, cityVehicles, cityTargets,
                 solveVars, buildVars>>

\* fleet.map(v => ({..., seatsLeft, city, picks: []}))
Vehicle(v) ==
  [id |-> v.id,
   email |-> v.email,
   start |-> v.coordinates,
   seatsLeft |-> v.availableSeats,
   city |-> nearestCityForCoord(v.coordinates),
   picks |-> <<>>]

\* The seat filter without the id filter.
SelectedBySeats(v) == v.availableSeats > 0

\* .filter(v => v.seatsLeft > 0).filter(v => include.length ? include.includes(v.id) : true)
Selected(v) ==
  /\ v.availableSeats > 0
  /\ (include # {} => v.id \in include)

SelectedVehicles ==
  LET kept == SelectSeq(fleet, Selected)
  IN  [i \in 1..Len(kept) |-> Vehicle(kept[i])]

totalFree(vs) == SumSeq([i \in 1..Len(vs) |-> vs[i].seatsLeft])

\* The reason code of an empty result for lack of seats.
NoCapacityReason == IF include # {} THEN "no_capacity_in_selected" ELSE "no_capacity"

SelectVehicles ==
  /\ pc = "vehicles"
  /\ vehiclesAll' = SelectedVehicles
  /\ IF totalFree(SelectedVehicles) = 0
       THEN Respond(<<>>, [vehicles |-> Len(fleet), targets |-> Len(targets),
                           activeDisasters |-> Len(geoms),
                           reason |-> NoCapacityReason])
       ELSE pc' = "partition" /\ UNCHANGED <<res, err>>
  /\ UNCHANGED <<gatherVars, targets, cityVehicles, cityTargets,
                 solveVars, buildVars>>

\* Indices (0-based) of the elements of s whose city is c, in order.
RECURSIVE IndicesIn(_, _, _)
IndicesIn(cities, c, i) ==
  IF i > Len(cities) THEN <<>>
  ELSE (IF cities[i] = c THEN <<i - 1>> ELSE <<>>) \o IndicesIn(cities, c, i + 1)

vehicleCities == [i \in 1..Len(vehiclesAll) |-> vehiclesAll[i].city]
targetCities == [i \in 1..Len(targets) |-> nearestCityForCoord(targets[i].coord)]

\* cityVehicles[v.city].push(v) and cityTargets[c].push(t): the key of a
\* vehicle or target outside every radius is null, no list is stored under
\* it, and push on undefined throws.
Partition ==
  /\ pc = "partition"
  /\ IF \E i \in 1..Len(vehicleCities) : vehicleCities[i] \notin cityNames
       THEN /\ PlanFailed("partition")
            /\ UNCHANGED <<cityVehicles, cityTargets>>
       ELSE /\ cityVehicles' = [c \in cityNames |-> IndicesIn(vehicleCities, c, 1)]
            /\ IF \E i \in 1..Len(targetCities) : targetCities[i] \notin cityNames
                 THEN /\ PlanFailed("partition")
                      /\ UNCHANGED cityTargets
                 ELSE /\ cityTargets' = [c \in cityNames |-> IndicesIn(targetCities, c, 1)]
                      /\ pc' = "optimize"
                      /\ UNCHANGED <<res, err>>
  /\ UNCHANGED <<gatherVars, targets, vehiclesAll, solveVars, buildVars>>

(***************************************************************************)
(* Remote solver: request, response parsing, reconciliation.               *)
(***************************************************************************)

\* vehiclesModel[i].name and shipmentsModel[i].name (i 0-based).
vehicleName(i) == "veh-" \o vehiclesAll[i + 1].id
shipmentName(i) ==
  "t-" \o (IF targets[i + 1].id # "" THEN targets[i + 1].id ELSE ToString(i))

\* new Map(entries): of two entries with one key the later one stays.
LastOf(hits) ==
  IF hits = {} THEN None
  ELSE Some(CHOOSE i \in hits : \A k \in hits : k <= i)

vehicleByIndex(i) == IF i \in 0..(Len(vehiclesAll) - 1) THEN Some(i) ELSE None
vehicleByName(key) ==
  LastOf({i \in 0..(Len(vehiclesAll) - 1) : vehicleName(i) = key})
shipmentByIndex(i) == IF i \in 0..(Len(targets) - 1) THEN Some(i) ELSE None
shipmentByName(key) ==
  LastOf({i \in 0..(Len(targets) - 1) : shipmentName(i) = key})

\* A resolver that takes a label it does not know for the first shipment.
getShipmentOrFirst(visit) ==
  IF visit.shipmentIndex # None THEN shipmentByIndex(visit.shipmentIndex[1])
  ELSE IF visit.shipmentLabel # None
    THEN (IF shipmentByName(visit.shipmentLabel[1]) # None
            THEN shipmentByName(visit.shipmentLabel[1]) ELSE shipmentByIndex(0))
  ELSE IF visit.requestIndex # None THEN shipmentByIndex(visit.requestIndex[1])
  ELSE None

\* By shipmentIndex when it is an integer, else by shipmentLabel when there
\* is one, else by requestIndex (standing for the three defensive index
\* fields, which are read the same way).
getShipmentFromVisit(visit) ==
  IF visit.shipmentIndex # None THEN shipmentByIndex(visit.shipmentIndex[1])
  ELSE IF visit.shipmentLabel # None THEN shipmentByName(visit.shipmentLabel[1])
  ELSE IF visit.requestIndex # None THEN shipmentByIndex(visit.requestIndex[1])
  ELSE None

\* name -> vehicleIndex -> vehicleLabel -> position of the route in the array.
ResolveVehicle(route, pos) ==
  IF route.vehicle # None /\ vehicleByName(route.vehicle[1]) # None
    THEN vehicleByName(route.vehicle[1])
  ELSE IF route.vehicleIndex # None /\ vehicleByIndex(route.vehicleIndex[1]) # None
    THEN vehicleByIndex(route.vehicleIndex[1])
  ELSE IF route.vehicleLabel # None /\ vehicleByName(route.vehicleLabel[1]) # None
    THEN vehicleByName(route.vehicleLabel[1])
  ELSE vehicleByIndex(pos)

\* What a response can hold as one element of routes: an object naming its
\* vehicle in one of the documented ways (or none), whose visits are an
\* array or something for...of cannot walk; or null.
RouteRefs ==
  { [vehicle |-> n, vehicleIndex |-> None, vehicleLabel |-> None] :
      n \in {Some("veh-v1"), Some("veh-v2"), Some("veh-zz")} }
  \cup
  { [vehicle |-> None, vehicleIndex |-> i, vehicleLabel |-> None] :
      i \in {Some(0), Some(1), Some(5)} }
  \cup
  { [vehicle |-> None, vehicleIndex |-> None, vehicleLabel |-> l] :
      l \in {Some("veh-v2"), None} }

RouteEntries ==
  { [shape |-> "object", ref |-> r, visits |-> v] :
      r \in RouteRefs, v \in {"array", "not_iterable"} }
  \cup
  { [shape |-> "null",
     ref |-> [vehicle |-> None, vehicleIndex |-> None, vehicleLabel |-> None],
     visits |-> "array"] }

Visits ==
  { [shipmentIndex |-> i, shipmentLabel |-> None, requestIndex |-> None] :
      i \in {Some(0), Some(1)} }
  \cup
  { [shipmentIndex |-> None, shipmentLabel |-> l, requestIndex |-> None] :
      l \in {Some("t-1"), Some("t-0"), Some("t-zz")} }
  \cup
  { [shipmentIndex |-> Some(7), shipmentLabel |-> Some("t-1"), requestIndex |-> None],
    [shipmentIndex |-> None, shipmentLabel |-> None, requestIndex |-> Some(0)],
    [shipmentIndex |-> None, shipmentLabel |-> None, requestIndex |-> None] }

\* The remote branch running on into the local solver.
AfterRemoteFallsThrough == "table"

\* Where the handler continues after the remote branch (the else branch,
\* the local solver, is skipped).
AfterRemote == "build"

\* solved = await optimizeTours(model): null on a failed call or an empty
\* body, else the body as it came; the picks are cleared; then the branch
\* on solved?.routes?.length.
Optimize ==
  /\ pc = "optimize"
  /\ \E body \in {"null", "no_routes", "routes"} :
       /\ solved' = body
       /\ pc' = IF body = "routes" THEN "parse" ELSE "table"
  /\ vehiclesAll' = [i \in 1..Len(vehiclesAll) |-> [vehiclesAll[i] EXCEPT !.picks = <<>>]]
  /\ ri' = 0
  /\ assignedShipmentIdx' = {}
  /\ UNCHANGED <<gatherVars, targets, cityVehicles, cityTargets, veh, ordered, nv, curVisit,
                 missing, durations, unassigned, pickedBy, unknownLabelSeen, buildVars, res, err>>

\* solved.routes.forEach((route, ri) => ...), up to the visits loop.  A
\* null element throws at route.vehicle, visits that are no iterable throw
\* at for...of; an unresolved vehicle skips the route.
StartRoute ==
  /\ pc = "parse"
  /\ ri < MaxRoutes
  /\ \E route \in RouteEntries :
       IF route.shape = "null"
         THEN /\ PlanFailed("optimizer_body")
              /\ UNCHANGED <<ri, veh, ordered, nv, curVisit>>
         ELSE IF ResolveVehicle(route.ref, ri) = None
           THEN /\ ri' = ri + 1
                /\ UNCHANGED <<pc, res, err, veh, ordered, nv, curVisit>>
         ELSE IF route.visits = "not_iterable"
           THEN /\ PlanFailed("optimizer_body")
                /\ UNCHANGED <<ri, veh, ordered, nv, curVisit>>
         ELSE /\ veh' = ResolveVehicle(route.ref, ri)
              /\ ordered' = <<>>
              /\ nv' = 0
              /\ curVisit' = NoVisit
              /\ pc' = "visits"
              /\ UNCHANGED <<ri, res, err>>
  /\ UNCHANGED <<gatherVars, targets, vehiclesAll, cityVehicles, cityTargets,
                 solved, assignedShipmentIdx, missing, durations, unassigned,
                 pickedBy, unknownLabelSeen, buildVars>>

\* The visit names its shipment by a label only, and no shipment was sent
\* under that label.
UnknownLabel(v) ==
  /\ v.shipmentIndex = None
  /\ v.shipmentLabel # None
  /\ shipmentByName(v.shipmentLabel[1]) = None

\* One iteration of for (const visit of route.visits).
ParseVisit ==
  /\ pc = "visits"
  /\ nv < MaxVisits
  /\ \E next \in Visits :
       LET s == getShipmentFromVisit(next)
       IN  /\ curVisit' = next
           /\ unknownLabelSeen' = (unknownLabelSeen \/ UnknownLabel(next))
           /\ IF s = None
                THEN UNCHANGED <<ordered, assignedShipmentIdx>>
                ELSE /\ assignedShipmentIdx' = assignedShipmentIdx \cup {s[1]}
                     /\ ordered' = Append(ordered, s[1])
  /\ nv' = nv + 1
  /\ UNCHANGED <<pc, gatherVars, targets, vehiclesAll, cityVehicles, cityTargets,
                 solved, ri, veh, missing, durations, unassigned, pickedBy,
                 buildVars, res, err>>

\* veh.picks = ordered; veh.seatsLeft = Math.max(0, veh.seatsLeft - ordered.length)
EndRoute ==
  /\ pc = "visits"
  /\ vehiclesAll' = [vehiclesAll EXCEPT
                       ![veh[1] + 1].picks = ordered,
                       ![veh[1] + 1].seatsLeft = Max(0, @ - Len(ordered))]
  /\ pickedBy' = IF ordered # <<>> THEN pickedBy \cup {"remote"} ELSE pickedBy
  /\ ri' = ri + 1
  /\ veh' = None
  /\ ordered' = <<>>
  /\ nv' = 0
  /\ curVisit' = NoVisit
  /\ pc' = "parse"
  /\ UNCHANGED <<gatherVars, targets, cityVehicles, cityTargets, solved,
                 assignedShipmentIdx, missing, durations, unassigned, unknownLabelSeen, buildVars,
                 res, err>>

\* Ascending indices in 0..(n - 1) that are not in S.
RECURSIVE AscendingNotIn(_, _, _)
AscendingNotIn(S, i, n) ==
  IF i >= n THEN <<>>
  ELSE (IF i \in S THEN <<>> ELSE <<i>>) \o AscendingNotIn(S, i + 1, n)

\* EndRoutes taken while a route is still being read.
EndRoutesEarly ==
  /\ pc = "visits"
  /\ missing' = IF Cardinality(assignedShipmentIdx) < Len(targets)
                  THEN AscendingNotIn(assignedShipmentIdx, 0, Len(targets))
                  ELSE <<>>
  /\ pc' = "reconcile"
  /\ UNCHANGED <<gatherVars, targets, vehiclesAll, cityVehicles, cityTargets,
                 solved, ri, veh, ordered, nv, curVisit, assignedShipmentIdx, durations,
                 unassigned, pickedBy, unknownLabelSeen, buildVars, res, err>>

\* The routes are through (there was at least one): the safety net lists
\* the shipments no visit resolved to.
EndRoutes ==
  /\ pc = "parse"
  /\ ri >= 1
  /\ missing' = IF Cardinality(assignedShipmentIdx) < Len(targets)
                  THEN AscendingNotIn(assignedShipmentIdx, 0, Len(targets))
                  ELSE <<>>
  /\ pc' = "reconcile"
  /\ UNCHANGED <<gatherVars, targets, vehiclesAll, cityVehicles, cityTargets,
                 solved, ri, veh, ordered, nv, curVisit, assignedShipmentIdx, durations,
                 unassigned, pickedBy, unknownLabelSeen, buildVars, res, err>>

\* The nearest vehicle, with or without a seat left.
NearestOfAll(coord) ==
  LET all == 0..(Len(vehiclesAll) - 1)
      score(i) == haversineKm(vehiclesAll[i + 1].start, coord)
  IN  IF all = {} THEN None
      ELSE Some(CHOOSE i \in all :
                  /\ \A k \in all : score(i) <= score(k)
                  /\ \A k \in all : k < i => score(k) > score(i))

\* The vehicle the safety net takes for a coordinate: among those with a
\* seat left the first of minimum haversine distance; None without one.
NearestWithSeat(coord) ==
  LET free == {i \in 0..(Len(vehiclesAll) - 1) : vehiclesAll[i + 1].seatsLeft > 0}
      score(i) == haversineKm(vehiclesAll[i + 1].start, coord)
  IN  IF free = {} THEN None
      ELSE Some(CHOOSE i \in free :
                  /\ \A k \in free : score(i) <= score(k)
                  /\ \A k \in free : k < i => score(k) > score(i))

\* for (const mi of missing): attach to bestV, or only warn.
ReconcileStep ==
  /\ pc = "reconcile"
  /\ missing # <<>>
  /\ LET mi == Head(missing)
         bestV == NearestWithSeat(targets[mi + 1].coord)
     IN  IF bestV # None
           THEN /\ vehiclesAll' = [vehiclesAll EXCEPT
                                     ![bestV[1] + 1].picks = Append(@, mi),
                                     ![bestV[1] + 1].seatsLeft = Max(0, @ - 1)]
                /\ pickedBy' = pickedBy \cup {"remote"}
           ELSE UNCHANGED <<vehiclesAll, pickedBy>>
  /\ missing' = Tail(missing)
  /\ UNCHANGED <<pc, gatherVars, targets, cityVehicles, cityTargets, solved, ri,
                 veh, ordered, nv, curVisit, assignedShipmentIdx, durations, unassigned,
                 unknownLabelSeen, buildVars, res, err>>

EndReconcile ==
  /\ pc = "reconcile"
  /\ missing = <<>>
  /\ pc' = AfterRemote
  /\ UNCHANGED <<gatherVars, targets, vehiclesAll, cityVehicles, cityTargets,
                 solveVars, buildVars, res, err>>

(***************************************************************************)
(* Local greedy solver.                                                    *)
(***************************************************************************)

\* What osrmTable can return for V origins and T destinations: null, or a
\* matrix whose entries are a duration or no finite number.
DurationEntries == {None, Some(40)}
DurationTables(V, T) ==
  {None} \cup {Some(m) : m \in [1..V -> [1..T -> DurationEntries]]}

\* A cost that is 0 for a pair without a matrix entry.
ScoreNoFallback(vi, ti) ==
  IF durations # None /\ durations[1][vi + 1][ti + 1] # None
    THEN durations[1][vi + 1][ti + 1][1]
    ELSE 0

\* durations[vi][ti] when finite, else the haversine distance.
Score(vi, ti) ==
  IF durations # None /\ durations[1][vi + 1][ti + 1] # None
    THEN durations[1][vi + 1][ti + 1][1]
    ELSE haversineKm(vehiclesAll[vi + 1].start, targets[ti + 1].coord)

\* A scan in which a pair replaces the best also when it is as cheap.
BestPairLastFound ==
  LET pairs == {p \in (0..(Len(vehiclesAll) - 1)) \X unassigned :
                  vehiclesAll[p[1] + 1].seatsLeft > 0}
      before(p, q) == p[1] < q[1] \/ (p[1] = q[1] /\ p[2] < q[2])
  IN  CHOOSE p \in pairs :
        /\ \A q \in pairs : Score(p[1], p[2]) <= Score(q[1], q[2])
        /\ \A q \in pairs : before(p, q) => Score(q[1], q[2]) > Score(p[1], p[2])

\* A scan that does not skip the vehicles without a seat left.
BestPairAnyVehicle ==
  LET pairs == (0..(Len(vehiclesAll) - 1)) \X unassigned
      before(p, q) == p[1] < q[1] \/ (p[1] = q[1] /\ p[2] < q[2])
  IN  CHOOSE p \in pairs :
        /\ \A q \in pairs : Score(p[1], p[2]) <= Score(q[1], q[2])
        /\ \A q \in pairs : before(q, p) => Score(q[1], q[2]) > Score(p[1], p[2])

\* The scan: vehicles in order, for each the unassigned targets in order;
\* a pair replaces the best only if strictly cheaper.
BestPair ==
  LET pairs == {p \in (0..(Len(vehiclesAll) - 1)) \X unassigned :
                  vehiclesAll[p[1] + 1].seatsLeft > 0}
      before(p, q) == p[1] < q[1] \/ (p[1] = q[1] /\ p[2] < q[2])
  IN  CHOOSE p \in pairs :
        /\ \A q \in pairs : Score(p[1], p[2]) <= Score(q[1], q[2])
        /\ \A q \in pairs : before(q, p) => Score(q[1], q[2]) > Score(p[1], p[2])

\* table = await osrmTable(starts, coords); unassigned = all target indices.
Table ==
  /\ pc = "table"
  /\ \E d \in DurationTables(Len(vehiclesAll), Len(targets)) : durations' = d
  /\ unassigned' = 0..(Len(targets) - 1)
  /\ pc' = "greedy"
  /\ UNCHANGED <<gatherVars, targets, vehiclesAll, cityVehicles, cityTargets,
                 solved, ri, veh, ordered, nv, curVisit, assignedShipmentIdx, missing,
                 pickedBy, unknownLabelSeen, buildVars, res, err>>

\* A loop condition that holds only until the first pick.
GreedyGoesOnce ==
  /\ unassigned # {}
  /\ \E i \in 1..Len(vehiclesAll) : vehiclesAll[i].seatsLeft > 0
  /\ \A i \in 1..Len(vehiclesAll) : vehiclesAll[i].picks = <<>>

GreedyGoesOn ==
  /\ unassigned # {}
  /\ \E i \in 1..Len(vehiclesAll) : vehiclesAll[i].seatsLeft > 0

\* One iteration of the while loop.
GreedyStep ==
  /\ pc = "greedy"
  /\ GreedyGoesOn
  /\ LET bestVI == BestPair[1]
         bestTI == BestPair[2]
     IN  /\ vehiclesAll' = [vehiclesAll EXCEPT
                              ![bestVI + 1].picks = Append(@, bestTI),
                              ![bestVI + 1].seatsLeft = @ - 1]
         /\ unassigned' = unassigned \ {bestTI}
  /\ pickedBy' = pickedBy \cup {"local"}
  /\ UNCHANGED <<pc, gatherVars, targets, cityVehicles, cityTargets, solved, ri,
                 veh, ordered, nv, curVisit, assignedShipmentIdx, missing, durations,
                 unknownLabelSeen, buildVars, res, err>>

EndGreedy ==
  /\ pc = "greedy"
  /\ ~GreedyGoesOn
  /\ pc' = "build"
  /\ UNCHANGED <<gatherVars, targets, vehiclesAll, cityVehicles, cityTargets,
                 solveVars, buildVars, res, err>>

(***************************************************************************)
(* Route builder and result.                                               *)
(***************************************************************************)

\* nearestNeighborRoute(startCoord, stops): repeatedly the first remaining
\* stop of minimum distance to the current position.  stops and the result
\* are sequences of target indices.
RECURSIVE nearestNeighborRoute(_, _)
nearestNeighborRoute(curr, remaining) ==
  IF remaining = <<>> THEN <<>>
  ELSE LET d(i) == haversineKm(curr, targets[remaining[i] + 1].coord)
           bestIdx == CHOOSE i \in 1..Len(remaining) :
                        /\ \A k \in 1..Len(remaining) : d(i) <= d(k)
                        /\ \A k \in 1..(i - 1) : d(k) > d(i)
           rest == [k \in 1..(Len(remaining) - 1) |->
                      IF k < bestIdx THEN remaining[k] ELSE remaining[k + 1]]
       IN  <<remaining[bestIdx]>>
             \o nearestNeighborRoute(targets[remaining[bestIdx] + 1].coord, rest)

\* const order = v.picks
StopOrder(v) == v.picks

\* The path through the stops without the vehicle's start.
OrderedCoordsNoStart(v) ==
  [k \in 1..Len(StopOrder(v)) |-> targets[StopOrder(v)[k] + 1].coord]

\* [v.start, ...order.map(o => o.coord)]
OrderedCoords(v) ==
  <<v.start>> \o [k \in 1..Len(StopOrder(v)) |-> targets[StopOrder(v)[k] + 1].coord]

\* Sum of the haversine legs of a path.
PathKm(coords) ==
  SumSeq([k \in 1..(Len(coords) - 1) |-> haversineKm(coords[k], coords[k + 1])])

\* What osrmRoute can return: null (failed call, no route in the body), or
\* the provider's geometry with its distance and duration.  The distances
\* of the model are whole km, which toFixed(2) leaves as they are.
OsrmGeometry == [type |-> "LineString", coordinates |-> << <<0, 1>>, <<1, 1>> >>]
RouteResults ==
  {None, Some([geometry |-> OsrmGeometry, distanceKm |-> 7, durationMin |-> 9])}

RouteFeature(v, routed) ==
  [kind |-> "route",
   vehicleId |-> v.id,
   city |-> v.city,
   assigned |-> Len(StopOrder(v)),
   capacityUsed |-> Len(StopOrder(v)),
   capacityTotal |-> v.seatsLeft,
   geometry |-> IF routed # None THEN routed[1].geometry
                ELSE [type |-> "LineString", coordinates |-> OrderedCoords(v)],
   distanceKm |-> IF routed # None THEN routed[1].distanceKm
                  ELSE PathKm(OrderedCoords(v)),
   durationMin |-> IF routed # None THEN Some(routed[1].durationMin) ELSE None]

\* PickupFeatures with seq: idx, numbered from zero.
PickupFeaturesFromZero(v) ==
  [k \in 1..Len(StopOrder(v)) |->
     [kind |-> "pickup",
      vehicleId |-> v.id,
      city |-> v.city,
      seq |-> k - 1,
      target |-> StopOrder(v)[k],
      geometry |-> [type |-> "Point", coordinates |-> targets[StopOrder(v)[k] + 1].coord]]]

PickupFeatures(v) ==
  [k \in 1..Len(StopOrder(v)) |->
     [kind |-> "pickup",
      vehicleId |-> v.id,
      city |-> v.city,
      seq |-> k,
      target |-> StopOrder(v)[k],
      geometry |-> [type |-> "Point", coordinates |-> targets[StopOrder(v)[k] + 1].coord]]]

\* The addresses of the fleets that contain "test".
TestAddresses == {"test@fleet.example"}

\* if (v.email && !v.email.includes("test")) await sendRouteEmail(...)
WantsMail(v) == v.email # None /\ v.email[1] \notin TestAddresses

\* One iteration of for (const v of vehiclesAll): nothing for a vehicle
\* without picks; else the route call, the route email where the vehicle
\* has an address for it (transporter.sendMail resolves, or rejects and the
\* handler's catch answers), the route record, then one record per stop.
BuildRoute ==
  /\ pc = "build"
  /\ bi < Len(vehiclesAll)
  /\ LET v == vehiclesAll[bi + 1]
     IN  IF v.picks = <<>>
           THEN /\ features' = features
                /\ routeCalls' = Append(routeCalls, [called |-> FALSE, routed |-> None])
                /\ bi' = bi + 1
                /\ UNCHANGED <<pc, res, err, notified>>
           ELSE \E routed \in RouteResults, delivered \in BOOLEAN :
                  /\ routeCalls' = Append(routeCalls, [called |-> TRUE, routed |-> routed])
                  /\ IF WantsMail(v) /\ ~delivered
                       THEN /\ PlanFailed("notify")
                            /\ UNCHANGED <<bi, features, notified>>
                       ELSE /\ notified' = IF WantsMail(v) THEN Append(notified, v.id)
                                                          ELSE notified
                            /\ features' = features \o <<RouteFeature(v, routed)>>
                                                   \o PickupFeatures(v)
                            /\ bi' = bi + 1
                            /\ UNCHANGED <<pc, res, err>>
  /\ UNCHANGED <<gatherVars, targets, vehiclesAll, cityVehicles, cityTargets, solveVars>>

\* return res.json({type: 'FeatureCollection', features, meta})
Finish ==
  /\ pc = "build"
  /\ bi = Len(vehiclesAll)
  /\ Respond(features, [vehicles |-> Len(fleet), targets |-> Len(targets),
                        activeDisasters |-> Len(geoms)])
  /\ UNCHANGED <<gatherVars, targets, vehiclesAll, cityVehicles, cityTargets,
                 solveVars, buildVars>>

Next ==
  \/ StartRun
  \/ SettleAmea(AmeaRows)
  \/ SettleFleet(Fleets)
  \/ SettleGeoms(HazardFeeds)
  \/ Join
  \/ JoinRejected
  \/ Filter
  \/ SelectVehicles
  \/ Partition
  \/ Optimize
  \/ StartRoute
  \/ ParseVisit
  \/ EndRoute
  \/ EndRoutes
  \/ ReconcileStep
  \/ EndReconcile
  \/ Table
  \/ GreedyStep
  \/ EndGreedy
  \/ BuildRoute
  \/ Finish

Spec == Init /\ [][Next]_vars

\* Two targets inside the one open hazard of these runs.
ReloadRows ==
  SeqsUpTo({[id |-> "", coordinates |-> <<4, 0>>], [id |-> "", coordinates |-> <<7, 0>>]},
           MaxTargets)

ReloadFeeds == {<<OpenHazard(GeomSquare)>>}

\* The run up to the partition step, with reloads of the provider list
\* handled at any point in between.
NextReload ==
  \/ StartRun
  \/ SettleAmea(ReloadRows)
  \/ SettleFleet(OneVehicleFleets)
  \/ SettleGeoms(ReloadFeeds)
  \/ Join
  \/ JoinRejected
  \/ Filter
  \/ SelectVehicles
  \/ Partition
  \/ Reload

SpecReload == Init /\ [][NextReload]_vars

\* Fleets whose vehicles have a contact address, a test address or none:
\* one seat each, at <<5, 0>>.
Addresses == {None, Some("crew@fleet.example"), Some("test@fleet.example")}

NotifyFleets ==
  UNION {
    { [i \in 1..k |-> [id |-> VehicleIds[i], coordinates |-> <<5, 0>>, email |-> f[i],
                       totalSeats |-> 1, occupiedSeats |-> 0]] :
        f \in [1..k -> Addresses] } :
    k \in 0..MaxVehicles }

NotifyRows ==
  SeqsUpTo({[id |-> "", coordinates |-> <<4, 0>>], [id |-> "", coordinates |-> <<7, 0>>]},
           MaxTargets)

NotifyFeeds == {<<OpenHazard(GeomSquare)>>}

\* The runs of fleets with contact addresses.
NextNotify ==
  \/ StartRun
  \/ SettleAmea(NotifyRows)
  \/ SettleFleet(NotifyFleets)
  \/ SettleGeoms(NotifyFeeds)
  \/ Join
  \/ JoinRejected
  \/ Filter
  \/ SelectVehicles
  \/ Partition
  \/ Optimize
  \/ StartRoute
  \/ ParseVisit
  \/ EndRoute
  \/ EndRoutes
  \/ ReconcileStep
  \/ EndReconcile
  \/ Table
  \/ GreedyStep
  \/ EndGreedy
  \/ BuildRoute
  \/ Finish

SpecNotify == Init /\ [][NextNotify]_vars

\* Points for the partition: near one center (1), as far from two centers
\* as the radius (3), on the radius of one (9, 13), outside every radius
\* (10) and outside them at equal distance from two centers (11).
PartitionPoints == {<<1, 0>>, <<3, 0>>, <<9, 0>>, <<10, 0>>, <<11, 0>>, <<13, 0>>}

PartitionFleets ==
  UNION {
    { [i \in 1..k |-> [id |-> VehicleIds[i], coordinates |-> f[i], email |-> None,
                       totalSeats |-> 1, occupiedSeats |-> 0]] :
        f \in [1..k -> PartitionPoints] } :
    k \in 0..MaxVehicles }

PartitionRows ==
  SeqsUpTo({[id |-> "", coordinates |-> c] : c \in PartitionPoints}, MaxTargets)

\* One open hazard around all of them.
GeomWide == [type |-> "Polygon", coordinates |-> <<Square(0 - 1, 17)>>]

PartitionFeeds == {<<OpenHazard(GeomWide)>>}

\* The run up to the partition step, over these points.
NextPartition ==
  \/ StartRun
  \/ SettleAmea(PartitionRows)
  \/ SettleFleet(PartitionFleets)
  \/ SettleGeoms(PartitionFeeds)
  \/ Join
  \/ JoinRejected
  \/ Filter
  \/ SelectVehicles
  \/ Partition

SpecPartition == Init /\ [][NextPartition]_vars

\* Three targets at one, two and three grid steps from a vehicle at
\* <<5, 0>>, the farthest first.
ScenarioRows ==
  { << [id |-> "", coordinates |-> <<2, 0>>],
       [id |-> "", coordinates |-> <<7, 0>>],
       [id |-> "1", coordinates |-> <<4, 0>>] >> }

LocalRows == AmeaRows \cup ScenarioRows

\* The runs that take the local solver, the three targets among them; the
\* loop of the solver, once entered, goes on until its condition fails.
NextLocal ==
  \/ StartRun
  \/ SettleAmea(LocalRows)
  \/ SettleFleet(Fleets)
  \/ SettleGeoms(HazardFeeds)
  \/ Join
  \/ JoinRejected
  \/ Filter
  \/ SelectVehicles
  \/ Partition
  \/ Optimize
  \/ Table
  \/ GreedyStep
  \/ EndGreedy
  \/ BuildRoute
  \/ Finish

SpecLocal ==
  Init /\ [][NextLocal]_vars /\ WF_vars(GreedyStep) /\ WF_vars(EndGreedy)

\* Geometries and points off the equator for the geometry kernel: the ring
\* of the square with corners (a, a) and (b, b).
Box(a, b) == << <<a, a>>, <<b, a>>, <<b, b>>, <<a, b>>, <<a, a>> >>

\* A ring around (1, 1) with its corners on the sides of Box(0, 2).
Diamond == << <<1, 0>>, <<2, 1>>, <<1, 2>>, <<0, 1>>, <<1, 0>> >>

GeomBox == [type |-> "Polygon", coordinates |-> <<Box(0, 2)>>]
GeomBoxHoled == [type |-> "Polygon", coordinates |-> <<Box(0, 2), Diamond>>]
GeomFrame == [type |-> "Polygon", coordinates |-> <<Box(0, 6), Box(2, 4)>>]
GeomTwoBoxes ==
  [type |-> "MultiPolygon", coordinates |-> << <<Box(0, 2)>>, <<Box(4, 6)>> >>]

KernelGeoms == {GeomBox, GeomBoxHoled, GeomFrame, GeomTwoBoxes}
KernelFeeds == {<<>>} \cup {<<OpenHazard(g)>> : g \in KernelGeoms}

KernelPoints == {<<1, 1>>, <<3, 3>>, <<5, 5>>, <<7, 7>>, <<1, 5>>}
KernelRows ==
  SeqsUpTo({[id |-> "", coordinates |-> c] : c \in KernelPoints}, MaxTargets)

\* The gathering and filtering steps over the geometries of the kernel.
NextKernel ==
  \/ StartRun
  \/ SettleAmea(KernelRows)
  \/ SettleFleet(OneVehicleFleets)
  \/ SettleGeoms(KernelFeeds)
  \/ Join
  \/ JoinRejected
  \/ Filter

SpecKernel == Init /\ [][NextKernel]_vars

\* The gathering and filtering steps alone, over every hazard feed.
NextEligibility ==
  \/ StartRun
  \/ SettleAmea(AmeaRows)
  \/ SettleFleet(OneVehicleFleets)
  \/ SettleGeoms(AllHazardFeeds)
  \/ Join
  \/ JoinRejected
  \/ Filter

SpecEligibility == Init /\ [][NextEligibility]_vars

(***************************************************************************)
(* Properties.                                                             *)
(***************************************************************************)

TargetIdx == 0..(Len(targets) - 1)
VehicleIdx == 0..(Len(vehiclesAll) - 1)

\* How often target t occurs in the pick lists of all vehicles.
Occurrences(t) ==
  SumSeq([i \in 1..Len(vehiclesAll) |->
            Cardinality({k \in 1..Len(vehiclesAll[i].picks) : vehiclesAll[i].picks[k] = t})])

\* The seats the fleet feature of vehicle v had available when fetched.
InitialSeats(v) ==
  LET f == CHOOSE f \in Range(fleet) : f.id = v.id IN f.availableSeats

Solved == pc \in {"build", "done"}

\* C1: after the remote path of a run has completed, every eligible target
\* is in exactly one vehicle's pick list or is covered by an unassigned
\* count in the returned metadata.
C1_NoSilentLoss ==
  (pc = "done" /\ solved = "routes") =>
    \A t \in TargetIdx :
      \/ Occurrences(t) = 1
      \/ /\ Occurrences(t) = 0
         /\ "unassigned" \in DOMAIN res.meta
         /\ res.meta.unassigned = Cardinality({u \in TargetIdx : Occurrences(u) = 0})

\* C2: in the assignment a run produces no vehicle has more picks than the
\* seats it had available at the start of the run, on either solver path.
C2_PicksWithinSeats ==
  Solved =>
    \A i \in 1..Len(vehiclesAll) :
      Len(vehiclesAll[i].picks) <= InitialSeats(vehiclesAll[i])

\* C3: when the optimizer yields no routes, the fallback never matches a
\* vehicle with a target of another service area.
C3_FallbackWithinPartition ==
  (solved \in {"null", "no_routes"}) =>
    \A i \in 1..Len(vehiclesAll) :
      \A k \in 1..Len(vehiclesAll[i].picks) :
        nearestCityForCoord(targets[vehiclesAll[i].picks[k] + 1].coord) = vehiclesAll[i].city

\* C4: the run goes on only when all three fetches have settled, and no
\* failing source, the vehicle source included, makes the run fail.
C4_FetchFailuresIsolated ==
  /\ pc \notin {"idle", "gather", "failed"} => \A s \in Sources : fetch[s] = "fulfilled"
  /\ \A s \in Sources : fetch[s] = "rejected" => pc # "failed"

\* C5: no answer of the optimizer, of the matrix call or of a route call
\* (error, timeout, empty or malformed body) makes the run end in an error.
C5_ProviderFailuresNotFatal ==
  pc = "failed" => err \notin {"optimizer_body", "table", "route"}

\* A vehicle with free seats or an eligible target outside every radius.
OutOfRadiusInRun ==
  \/ \E i \in 1..Len(vehiclesAll) : vehiclesAll[i].city = NoCity
  \/ \E i \in 1..Len(targets) : nearestCityForCoord(targets[i].coord) = NoCity

\* C6: a run with a vehicle or an eligible target outside every radius keeps
\* it out of the partitions and still ends with a structured result.
C6_OutOfRadiusLeftOut ==
  OutOfRadiusInRun =>
    /\ pc # "failed"
    /\ \A c \in cityNames :
         /\ \A k \in 1..Len(cityVehicles[c]) : vehiclesAll[cityVehicles[c][k] + 1].city = c
         /\ \A k \in 1..Len(cityTargets[c]) :
              nearestCityForCoord(targets[cityTargets[c][k] + 1].coord) = c

\* Now inside the window of the hazard record: no end or an end after now,
\* and no start or a start not after now (a date that does not parse counts
\* as no date).
ActiveNow(d) ==
  /\ d.endDate.kind = "iso" => d.endDate.t > clock
  /\ d.startDate.kind = "iso" => d.startDate.t <= clock

\* The point lies inside the perimeter or a projected area of a hazard
\* record that is active now.
InsideActiveHazard(c) ==
  \E h \in 1..Len(hazards) :
    /\ ActiveNow(hazards[h])
    /\ \/ pointInGeom(c, hazards[h].geometry)
       \/ \E g \in 1..Len(hazards[h].projectedAreasOfEffect) :
            pointInGeom(c, hazards[h].projectedAreasOfEffect[g])

InsideEndedHazard(c) ==
  \E h \in 1..Len(hazards) :
    /\ hazards[h].endDate.kind = "iso"
    /\ hazards[h].endDate.t <= clock
    /\ pointInGeom(c, hazards[h].geometry)

FeatureInsideActiveHazard(f) == InsideActiveHazard(f.coordinates)

Filtered == pc \notin {"idle", "gather", "filter", "failed"} /\ Len(fleet) > 0

NoFreeSeat == \A i \in 1..Len(fleet) : ~Selected(fleet[i])

\* Some fetched record is eligible.
SomeEligible == \E i \in 1..Len(amea) : InsideActiveHazard(amea[i].coordinates)

\* C8: a run that finds no vehicle with a free seat returns an empty result
\* whose metadata carries no_capacity (no_capacity_in_selected under a
\* filter); an empty result for lack of eligible targets carries no reason.
C8_NoCapacityReason ==
  pc = "done" =>
    /\ (NoFreeSeat /\ SomeEligible) =>
         /\ res.features = <<>>
         /\ "reason" \in DOMAIN res.meta
         /\ res.meta.reason =
              (IF include # {} THEN "no_capacity_in_selected" ELSE "no_capacity")
    /\ ~SomeEligible => "reason" \notin DOMAIN res.meta

\* C9: in one run picks are assigned by the remote path (parsing and
\* reconciliation) only if the optimizer returned a route, by the local
\* solver only if it returned none, and never by both.
C9_OneSolverPath ==
  /\ ~({"remote", "local"} \subseteq pickedBy)
  /\ "remote" \in pickedBy => solved = "routes"
  /\ "local" \in pickedBy => solved \in {"null", "no_routes"}

\* A finished remote run that left a target without a vehicle.
C9_Witness ==
  /\ pc = "done"
  /\ pickedBy = {"remote"}
  /\ \E t \in TargetIdx : Occurrences(t) = 0

\* The points of the stop records of a vehicle, in the order emitted.
RECURSIVE StopsOf(_, _)
StopsOf(id, feats) ==
  IF feats = <<>> THEN <<>>
  ELSE (IF Head(feats).kind = "pickup" /\ Head(feats).vehicleId = id
          THEN <<Head(feats).geometry.coordinates>> ELSE <<>>)
       \o StopsOf(id, Tail(feats))

\* The points of the picks of vehicle v in nearest-neighbor order from its
\* start.
NearestNeighborStops(v) ==
  LET nn == nearestNeighborRoute(v.start, v.picks)
  IN  [k \in 1..Len(nn) |-> targets[nn[k] + 1].coord]

\* C10: the stops emitted for a vehicle are its picks in nearest-neighbor
\* order from the vehicle's start.
C10_StopsInNearestNeighborOrder ==
  pc = "done" =>
    \A i \in 1..Len(vehiclesAll) :
      StopsOf(vehiclesAll[i].id, res.features) = NearestNeighborStops(vehiclesAll[i])

\* The route records of the vehicle with this id.
RECURSIVE RouteRecordsOf(_, _)
RouteRecordsOf(id, feats) ==
  IF feats = <<>> THEN <<>>
  ELSE (IF Head(feats).kind = "route" /\ Head(feats).vehicleId = id
          THEN <<Head(feats)>> ELSE <<>>)
       \o RouteRecordsOf(id, Tail(feats))

\* The sum of the haversine legs between consecutive points.
LegsKm(points) ==
  SumSeq([k \in 1..(Len(points) - 1) |-> haversineKm(points[k], points[k + 1])])

ByAnyStrategy(v) ==
  {s \in TargetIdx :
     \/ v.shipmentIndex = Some(s)
     \/ v.requestIndex = Some(s)
     \/ (v.shipmentLabel # None /\ shipmentByName(v.shipmentLabel[1]) = Some(s))}

\* The vehicles a documented strategy finds for a route at position pos.
VehicleByAnyStrategy(r, pos) ==
  {i \in VehicleIdx :
     \/ r.vehicleIndex = Some(i)
     \/ (r.vehicle # None /\ vehicleByName(r.vehicle[1]) = Some(i))
     \/ (r.vehicleLabel # None /\ vehicleByName(r.vehicleLabel[1]) = Some(i))
     \/ pos = i}

\* C12: while an optimizer response is parsed, a route is given up only if
\* no strategy finds its vehicle, and a visit only if no strategy finds its
\* shipment: the visit read last, if some strategy finds a shipment for it,
\* has been appended to the stops of the route.
C12_EveryStrategyTried ==
  /\ pc \in {"parse", "visits"} =>
       \A r \in RouteRefs, pos \in 0..(MaxRoutes - 1) :
         VehicleByAnyStrategy(r, pos) # {} =>
           /\ ResolveVehicle(r, pos) # None
           /\ ResolveVehicle(r, pos)[1] \in VehicleByAnyStrategy(r, pos)
  /\ (pc = "visits" /\ nv > 0 /\ ByAnyStrategy(curVisit) # {}) =>
       /\ ordered # <<>>
       /\ ordered[Len(ordered)] \in ByAnyStrategy(curVisit)

\* No vehicle has a seat left on its running counter.
NoSeatLeft == \A i \in 1..Len(vehiclesAll) : vehiclesAll[i].seatsLeft <= 0

\* The visits loop has just read a visit named by an unknown label and has
\* left the stops of the route and the set of seen shipments as they were.
UnknownLabelSkipped ==
  (pc = "visits" /\ nv' = nv + 1 /\ UnknownLabel(curVisit')) =>
    (ordered' = ordered /\ assignedShipmentIdx' = assignedShipmentIdx)

\* The end of the parsing lists as missing exactly the targets that no
\* visit resolved to.
UnresolvedAreMissing ==
  (pc = "parse" /\ pc' = "reconcile") =>
    /\ Range(missing') = TargetIdx \ assignedShipmentIdx
    /\ Len(missing') = Cardinality(TargetIdx \ assignedShipmentIdx)

LocalWithoutMatrix ==
  /\ solved \in {"null", "no_routes"}
  /\ pc \in {"greedy", "build", "done"}
  /\ durations = None

\* The haversine distance of a vehicle-target pair.
PairKm(vi, ti) == haversineKm(vehiclesAll[vi + 1].start, targets[ti + 1].coord)

\* The pairs the local solver can choose from.
OpenPairs ==
  {p \in VehicleIdx \X unassigned : vehiclesAll[p[1] + 1].seatsLeft > 0}

\* A step of the local solver without a matrix gives a target to a vehicle
\* of a pair whose haversine distance no other open pair undercuts.
StepByHaversine ==
  (LocalWithoutMatrix /\ pc = "greedy" /\ vehiclesAll' # vehiclesAll) =>
    \E p \in OpenPairs :
      /\ vehiclesAll'[p[1] + 1].picks = Append(vehiclesAll[p[1] + 1].picks, p[2])
      /\ unassigned' = unassigned \ {p[2]}
      /\ \A q \in OpenPairs : PairKm(p[1], p[2]) <= PairKm(q[1], q[2])

\* C14: when the matrix call has failed the local solver still runs, takes
\* the haversine distance as the cost of every pair, stops only when no
\* target or no seat is left, and gives no vehicle more picks than seats
\* and no target to two vehicles.
C14_GreedyWithoutMatrix ==
  /\ [][StepByHaversine]_vars
  /\ [](LocalWithoutMatrix =>
          /\ \A i \in 1..Len(vehiclesAll) :
               Len(vehiclesAll[i].picks) <= InitialSeats(vehiclesAll[i])
          /\ \A t \in TargetIdx : Occurrences(t) <= 1
          /\ pc \in {"build", "done"} =>
               \/ \A t \in TargetIdx : Occurrences(t) = 1
               \/ NoSeatLeft)

\* A finished run whose matrix call failed and whose local solver chose
\* between two targets at different distances.
C14_Witness ==
  /\ pc = "done"
  /\ LocalWithoutMatrix
  /\ \E i \in VehicleIdx :
       /\ vehiclesAll[i + 1].picks # <<>>
       /\ \E t, u \in TargetIdx : PairKm(i, t) # PairKm(i, u)

\* Inside the outer ring and inside no hole ring of a polygon's rings.
InsideRings(pt, rings) ==
  /\ Len(rings) > 0
  /\ pointInRing(pt, rings[1])
  /\ \A r \in 2..Len(rings) : ~pointInRing(pt, rings[r])

\* The classification the geometry kernel is to make.
InsideByRings(pt, geom) ==
  IF geom.type = "Polygon" THEN InsideRings(pt, geom.coordinates)
  ELSE IF geom.type = "MultiPolygon"
    THEN \E p \in 1..Len(geom.coordinates) : InsideRings(pt, geom.coordinates[p])
  ELSE FALSE

\* The filter kept a target at this point.
KeptAt(pt) == \E k \in 1..Len(targets) : targets[k].coord = pt

FetchedAt(pt) == \E k \in 1..Len(amea) : amea[k].coordinates = pt

\* C15: the filter keeps a fetched point iff it is inside the outer ring
\* and no hole ring of the polygon, or inside a polygon of the
\* multipolygon; for the square with corners (0,0) and (2,2) it keeps
\* (1,1) and drops (5,5), and it drops (1,1) when that lies in a hole.
C15_PointInGeom ==
  Filtered =>
    /\ \A k \in 1..Len(amea) :
         KeptAt(amea[k].coordinates)
           <=> \E g \in 1..Len(geoms) : InsideByRings(amea[k].coordinates, geoms[g])
    /\ geoms = <<GeomBox>> =>
         /\ FetchedAt(<<1, 1>>) => KeptAt(<<1, 1>>)
         /\ ~KeptAt(<<5, 5>>)
    /\ geoms = <<GeomBoxHoled>> => ~KeptAt(<<1, 1>>)
    /\ geoms = <<GeomFrame>> =>
         /\ ~KeptAt(<<3, 3>>) /\ ~KeptAt(<<7, 7>>)
         /\ FetchedAt(<<5, 5>>) => KeptAt(<<5, 5>>)
    /\ geoms = <<GeomTwoBoxes>> =>
         /\ ~KeptAt(<<3, 3>>) /\ ~KeptAt(<<1, 5>>)
         /\ FetchedAt(<<5, 5>>) => KeptAt(<<5, 5>>)

\* A filtered run over the square with a hole that fetched the point in the
\* hole and a point outside the square.
C15_Witness ==
  /\ Filtered
  /\ geoms = <<GeomBoxHoled>>
  /\ FetchedAt(<<1, 1>>)
  /\ FetchedAt(<<5, 5>>)
  /\ targets = <<>>

\* The hazard loader has settled.
HazardsLoaded == fetch["geoms"] = "fulfilled"

\* C16: the hazard loader takes the geometries of exactly the records whose
\* window holds now: no end or an end strictly after now, and no start or a
\* start not after now; a record that ends now gives nothing, one that
\* starts now (and has not ended) gives its geometries.
C16_HalfOpenWindow ==
  HazardsLoaded =>
    /\ geoms = Concat([i \in 1..Len(hazards) |->
                         IF ActiveNow(hazards[i]) THEN GeomsOfRecord(hazards[i]) ELSE <<>>])
    /\ Len(hazards) = 1 =>
         /\ hazards[1].endDate = At(clock) => geoms = <<>>
         /\ (hazards[1].startDate = At(clock) /\ hazards[1].endDate # At(clock)) =>
              (geoms = GeomsOfRecord(hazards[1]) /\ geoms # <<>>)

\* The loader has settled on a record that ends now and one that starts
\* now, and has taken the geometry of the second only.
C16_Witness ==
  /\ HazardsLoaded
  /\ Len(hazards) = 2
  /\ hazards[1].endDate = At(clock)
  /\ hazards[2].startDate = At(clock)
  /\ geoms = <<hazards[2].geometry>>

\* C17: under a non-empty vehicle-id filter every vehicle of the run, and
\* so every vehicle that holds picks, has its id in the filter, and so has
\* every route and stop record built or returned.
C17_IncludeFilter ==
  include # {} =>
    /\ \A i \in 1..Len(vehiclesAll) : vehiclesAll[i].id \in include
    /\ \A k \in 1..Len(features) : features[k].vehicleId \in include
    /\ pc = "done" => \A k \in 1..Len(res.features) : res.features[k].vehicleId \in include
    /\ \A i \in 1..Len(fleet) :
         fleet[i].id \notin include =>
           /\ RouteRecordsOf(fleet[i].id, features) = <<>>
           /\ StopsOf(fleet[i].id, features) = <<>>

\* A finished run under a filter that returned records while a vehicle with
\* free seats was outside the filter.
C17_Witness ==
  /\ pc = "done"
  /\ include # {}
  /\ res.features # <<>>
  /\ \E i \in 1..Len(fleet) : fleet[i].id \notin include /\ fleet[i].availableSeats > 0

\* The cost of a pair: its matrix entry when there is one, else its
\* haversine distance.
PairCost(vi, ti) ==
  IF durations # None /\ durations[1][vi + 1][ti + 1] # None
    THEN durations[1][vi + 1][ti + 1][1]
    ELSE PairKm(vi, ti)

\* Vehicle-major, then ascending target index.
ScansBefore(p, q) == p[1] < q[1] \/ (p[1] = q[1] /\ p[2] < q[2])

\* A step of the local solver gives the target of an open pair to its
\* vehicle; no open pair is cheaper and none as cheap comes earlier in the
\* scan.
StepTakesFirstCheapest ==
  (pc = "greedy" /\ vehiclesAll' # vehiclesAll) =>
    \E p \in OpenPairs :
      /\ vehiclesAll' = [vehiclesAll EXCEPT
                           ![p[1] + 1].picks = Append(@, p[2]),
                           ![p[1] + 1].seatsLeft = @ - 1]
      /\ unassigned' = unassigned \ {p[2]}
      /\ \A q \in OpenPairs :
           /\ PairCost(p[1], p[2]) <= PairCost(q[1], q[2])
           /\ PairCost(p[1], p[2]) = PairCost(q[1], q[2]) => ~ScansBefore(q, p)

\* C18: each iteration of the local solver assigns the open pair of minimum
\* cost (the matrix entry when present, else the haversine distance), and
\* among pairs of equal minimum cost the first in vehicle-major, then
\* ascending target-index order.
C18_GreedyMinCostFirstFound == [][StepTakesFirstCheapest]_vars

\* The picks of all vehicles together.
TotalPicks == SumSeq([i \in 1..Len(vehiclesAll) |-> Len(vehiclesAll[i].picks)])

\* The local solver has made its first step, and another pair was as cheap
\* as the one it took.
C18_Witness ==
  /\ pc = "greedy"
  /\ TotalPicks = 1
  /\ \E i \in VehicleIdx :
       /\ Len(vehiclesAll[i + 1].picks) = 1
       /\ LET t == vehiclesAll[i + 1].picks[1]
          IN  \E q \in VehicleIdx \X TargetIdx :
                /\ q # <<i, t>>
                /\ PairCost(q[1], q[2]) = PairCost(i, t)

\* The local solver is through.
LocalDone == solved \in {"null", "no_routes"} /\ pc \in {"build", "done"}

\* The seats the vehicles of the run had at its start.
SeatsAtStart == SumSeq([i \in 1..Len(vehiclesAll) |-> InitialSeats(vehiclesAll[i])])

Min(a, b) == IF a <= b THEN a ELSE b

\* One vehicle with two seats at <<5, 0>>, the three targets of the
\* scenario, no matrix.
ScenarioB ==
  /\ Len(vehiclesAll) = 1
  /\ vehiclesAll[1].start = <<5, 0>>
  /\ InitialSeats(vehiclesAll[1]) = 2
  /\ [k \in 1..Len(targets) |-> targets[k].coord] = << <<2, 0>>, <<7, 0>>, <<4, 0>> >>
  /\ durations = None

\* C19: the loop of the local solver comes to its end, and then every
\* target is picked or no vehicle has a seat left, the picks number
\* min(seats at the start, targets), and of three targets at one, two and
\* three steps a vehicle with two seats has the two nearest.
C19_GreedyTerminates ==
  /\ (pc = "greedy") ~> (pc = "build")
  /\ [](LocalDone =>
          /\ (\A t \in TargetIdx : Occurrences(t) = 1) \/ NoSeatLeft
          /\ TotalPicks = Min(SeatsAtStart, Len(targets))
          /\ ScenarioB => vehiclesAll[1].picks = <<2, 1>>)

\* A finished run of the scenario: the nearest two picked, the farthest not.
C19_Witness ==
  /\ pc = "done"
  /\ LocalDone
  /\ ScenarioB
  /\ Occurrences(0) = 0
  /\ NoSeatLeft

\* The vehicles with a seat left.
WithSeat == {i \in VehicleIdx : vehiclesAll[i + 1].seatsLeft > 0}

\* A step of the reconciliation takes the lowest missing target; without a
\* vehicle with a seat left nothing changes, else the target goes to the
\* end of the picks of the nearest such vehicle, the first of the nearest,
\* which loses one seat.
ReconcilesNearestWithSeat ==
  (pc = "reconcile" /\ missing # <<>> /\ missing' # missing) =>
    /\ missing' = Tail(missing)
    /\ \A k \in 1..Len(missing') : Head(missing) < missing'[k]
    /\ IF WithSeat = {} THEN vehiclesAll' = vehiclesAll
       ELSE \E i \in WithSeat :
              /\ \A k \in WithSeat :
                   /\ PairKm(i, Head(missing)) <= PairKm(k, Head(missing))
                   /\ PairKm(i, Head(missing)) = PairKm(k, Head(missing)) => i <= k
              /\ vehiclesAll' = [vehiclesAll EXCEPT
                                   ![i + 1].picks = Append(@, Head(missing)),
                                   ![i + 1].seatsLeft = @ - 1]

\* C20: the reconciliation takes the missing targets in ascending index and
\* gives each to the nearest vehicle with seatsLeft > 0 (the first on equal
\* distance), which loses one seat; a vehicle without a seat left gets
\* none, also when an earlier missing target has taken its last seat.
C20_ReconcileNearestWithSeat ==
  /\ [][ReconcilesNearestWithSeat /\ UnresolvedAreMissing]_vars
  /\ [](\A a, b \in 1..Len(missing) : a < b => missing[a] < missing[b])

\* Two targets were missing; the first took the last seat and the second
\* found none.
C20_Witness ==
  /\ pc = "reconcile"
  /\ missing = <<>>
  /\ assignedShipmentIdx = {}
  /\ Len(targets) = 2
  /\ Occurrences(0) = 1
  /\ Occurrences(1) = 0
  /\ NoSeatLeft

\* The area of a point: of the centers at minimum distance the first in
\* list order, if that distance is at most the radius; else none.
AreaOf(c) ==
  LET km(i) == haversineKm(CITY_CENTERS[i].center, c)
      nearest == {i \in 1..Len(CITY_CENTERS) : \A k \in 1..Len(CITY_CENTERS) : km(i) <= km(k)}
      first == CHOOSE i \in nearest : \A k \in nearest : i <= k
  IN  IF km(first) <= CITY_RADIUS_KM THEN CITY_CENTERS[first].city ELSE NoCity

\* The vehicles of the run carry their area.
VehiclesHaveCity == pc \in {"partition", "optimize"}

\* C21: every vehicle of a run carries the area of its start (the nearest
\* center, the first on a tie, none beyond the radius), and a partitioned
\* run lists every vehicle and every target under that area, so a vehicle
\* and a target at one point are listed under one area.
C21_NearestCity ==
  /\ VehiclesHaveCity =>
       \A i \in 1..Len(vehiclesAll) : vehiclesAll[i].city = AreaOf(vehiclesAll[i].start)
  /\ pc = "optimize" =>
       /\ \A c \in cityNames :
            /\ Range(cityVehicles[c]) = {i \in VehicleIdx : AreaOf(vehiclesAll[i + 1].start) = c}
            /\ Range(cityTargets[c]) = {t \in TargetIdx : AreaOf(targets[t + 1].coord) = c}
       /\ \A i \in VehicleIdx, t \in TargetIdx :
            vehiclesAll[i + 1].start = targets[t + 1].coord =>
              \E c \in cityNames : i \in Range(cityVehicles[c]) /\ t \in Range(cityTargets[c])

\* A partitioned run with a vehicle and a target at the point that is as
\* far from two centers as the radius; both are listed under the first.
C21_Witness ==
  /\ pc = "optimize"
  /\ \E i \in VehicleIdx, t \in TargetIdx :
       /\ vehiclesAll[i + 1].start = <<3, 0>>
       /\ targets[t + 1].coord = <<3, 0>>
       /\ i \in Range(cityVehicles["Athens"])
       /\ t \in Range(cityTargets["Athens"])

\* The positions of the records of vehicle id in a result, by kind.
RecordsAt(id, kind, feats) ==
  {p \in 1..Len(feats) : feats[p].kind = kind /\ feats[p].vehicleId = id}

PhaseOf(p) ==
  CASE p = "idle" -> 0
    [] p = "gather" -> 1
    [] p = "filter" -> 2
    [] p \in {"vehicles", "partition"} -> 3
    [] p \in {"optimize", "parse", "visits", "table", "greedy"} -> 4
    [] p = "reconcile" -> 5
    [] p = "build" -> 6
    [] p \in {"done", "failed"} -> 7

\* The pick lists and the seat counters of the vehicles.
PicksAndSeats(vs) == [i \in 1..Len(vs) |-> <<vs[i].picks, vs[i].seatsLeft>>]

\* C23: a run never goes back to an earlier phase (so each phase is gone
\* through at most once, in the order gather, filter, partition, solve,
\* reconcile, build routes, done); reconciliation starts only between two
\* routes of the parsing, with no route open, and nothing is parsed after
\* it has started; from the start of the route building on no pick list
\* and no seat counter changes.
C23_PhaseOrder ==
  [][/\ PhaseOf(pc') >= PhaseOf(pc)
     /\ (pc # "reconcile" /\ pc' = "reconcile") =>
          /\ pc = "parse"
          /\ veh = None /\ ordered = <<>>
          /\ ri >= 1
     /\ PhaseOf(pc) >= 5 =>
          /\ ri' = ri
          /\ assignedShipmentIdx' = assignedShipmentIdx
     /\ PhaseOf(pc) >= 6 => PicksAndSeats(vehiclesAll') = PicksAndSeats(vehiclesAll)]_vars

\* A finished run that parsed two routes, then reconciled a missing target
\* into a pick list, then built a route.
C23_Witness ==
  /\ pc = "done"
  /\ solved = "routes"
  /\ ri = 2
  /\ \E t \in TargetIdx \ assignedShipmentIdx : Occurrences(t) = 1
  /\ res.status = 200
  /\ res.features # <<>>

\* C24: when the parsing of the routes ends and the reconciliation is about
\* to start, every target recorded as assigned is in the pick list of some
\* vehicle.
C24_AssignedArePicked ==
  [][(pc = "parse" /\ pc' = "reconcile") =>
       \A t \in assignedShipmentIdx : Occurrences(t) >= 1]_vars

\* C25: when the solving of a run is through, on either path, no target
\* occurs more than once in the pick lists of the vehicles taken together.
C25_NoTargetTwice ==
  Solved => \A t \in TargetIdx : Occurrences(t) <= 1

\* The request for the optimizer has been built from the run's targets and
\* vehicles and sent, and its answer is being worked on.
RequestBuilt == pc \in {"parse", "visits", "reconcile", "table", "greedy"}

\* C26: in the request for the optimizer two different targets never have
\* one shipment label and two vehicles never have one name, and a label
\* resolves to the target that was sent under it.
C26_LabelsDistinct ==
  RequestBuilt =>
    /\ \A s, t \in TargetIdx :
         targets[s + 1] # targets[t + 1] => shipmentName(s) # shipmentName(t)
    /\ \A i, j \in VehicleIdx : i # j => vehicleName(i) # vehicleName(j)
    /\ \A t \in TargetIdx :
         \E s \in TargetIdx :
           /\ shipmentByName(shipmentName(t)) = Some(s)
           /\ targets[s + 1] = targets[t + 1]

\* C27: in a result every vehicle a route email was sent for has a route
\* record, and a run that ended in plan_failed has sent no route email.
C27_NotifiedHaveRoutes ==
  /\ (pc = "done" /\ res.status = 200) =>
       \A k \in 1..Len(notified) : RecordsAt(notified[k], "route", res.features) # {}
  /\ pc = "failed" => notified = <<>>

\* The run is on the local path: at the table call, in the loop of the
\* solver or past it.
OnLocalPath ==
  /\ solved \in {"null", "no_routes"}
  /\ pc \in {"table", "greedy", "build", "done"}

\* C28: on the local path every vehicle has, at every step, a seat counter
\* that is not negative and that, together with the number of its picks,
\* makes up the seats it had available at the start of the run.
C28_GreedySeatBalance ==
  OnLocalPath =>
    \A i \in 1..Len(vehiclesAll) :
      /\ vehiclesAll[i].seatsLeft >= 0
      /\ vehiclesAll[i].seatsLeft + Len(vehiclesAll[i].picks) = InitialSeats(vehiclesAll[i])

\* In the loop of the local solver: a vehicle with a pick and no seat left,
\* a target still unassigned and another vehicle with a seat for it.
C28_Witness ==
  /\ pc = "greedy"
  /\ unassigned # {}
  /\ \E i, j \in 1..Len(vehiclesAll) :
       /\ vehiclesAll[i].seatsLeft = 0
       /\ vehiclesAll[i].picks # <<>>
       /\ vehiclesAll[j].seatsLeft > 0

\* C29: in every route record of a result capacityTotal is the number of
\* seats the vehicle had available at the start of the run, and
\* capacityUsed is at most capacityTotal.
C29_CapacityTotal ==
  (pc = "done" /\ res.status = 200) =>
    \A i \in 1..Len(vehiclesAll) :
      \A p \in RecordsAt(vehiclesAll[i].id, "route", res.features) :
        /\ res.features[p].capacityTotal = InitialSeats(vehiclesAll[i])
        /\ res.features[p].capacityUsed <= res.features[p].capacityTotal

\* C30: the target fetch and the hazard fetch of a run select their
\* sources from the provider list in force when the run starts gathering,
\* and a reload handled at any later point of the run changes neither
\* selection.
C30_OneProviderList ==
  [][/\ (pc = "idle" /\ pc' = "gather") =>
          /\ ameaSources' = Some(AmeaSourcesOf(PROVIDERS))
          /\ geomSources' = Some(HazardSourcesOf(PROVIDERS))
     /\ pc # "idle" => (ameaSources' = ameaSources /\ geomSources' = geomSources)]_vars

\* A run whose fetches have all settled, with targets and geometries from
\* the sources it selected, after a reload during the gathering has put
\* another list in force that has none of these sources.
C30_Witness ==
  /\ pc = "filter"
  /\ amea # <<>>
  /\ geoms # <<>>
  /\ ameaSources = Some(AmeaSourcesOf(InitialProviders))
  /\ geomSources = Some(HazardSourcesOf(InitialProviders))
  /\ PROVIDERS = <<>>

====
